---- MODULE Spec2Model ----
(***************************************************************************)
(* The experiment harness example_pet_strongly_convex.py as a state        *)
(* machine: data cache, target (saddle point) cache, the run loop over     *)
(* the five algorithm variants, and the analysis stage.                    *)
(*                                                                         *)
(* Scaling.  The source has 200 data blocks, subset counts 1/10/50 and     *)
(* 100 epochs.  The model keeps the structure (1 < few < many <= blocks)   *)
(* with NumBlocks blocks, subset counts 1/2/3 and NEpoch epochs.           *)
(*                                                                         *)
(* Numbers.  A Python/NumPy number is a record with a field k:             *)
(*   "rat"   the rational n/d (d > 0, lowest terms)                        *)
(*   "inf", "ninf", "nan"   the IEEE specials NumPy produces               *)
(*   "kappa" sqrt(1 + n/d)                                                 *)
(*   "step"  1 / ((c1*sqrt(1 + n/d) + c0) * mu)                            *)
(*   "theta" 1 - 2 / (c1*sqrt(1 + n/d) + c0)                               *)
(*   "None"  Python's None                                                 *)
(***************************************************************************)
EXTENDS Integers, Sequences, FiniteSets, TLC

NumBlocks == 4
NEpoch == 2

Blocks == 1..NumBlocks

Algs == <<"pdhg", "spdhg_uni10", "spdhg_uni50", "pesquet_uni10", "pesquet_uni50">>

AlgSet == {Algs[j] : j \in 1..Len(Algs)}

\* number of subsets for each algorithm (10 and 50 scaled to 2 and 3)
nsub == [a \in AlgSet |->
           CASE a = "pdhg" -> 1
             [] a \in {"spdhg_uni10", "pesquet_uni10"} -> 2
             [] OTHER -> 3]

NormKeys == {nsub[a] : a \in AlgSet}

\* order in which the run loop executes the variants
RunOrderPesquetFirst == <<"pesquet_uni10", "pdhg", "spdhg_uni10", "spdhg_uni50", "pesquet_uni50">>

RunOrder == Algs

niter == [a \in AlgSet |-> NEpoch * nsub[a]]

iter_save == [a \in AlgSet |-> {i \in 0..niter[a] : i % nsub[a] = 0}]

IsSpdhg(a) == a \in {"spdhg_uni10", "spdhg_uni50"}

IsPesquet(a) == a \in {"pesquet_uni10", "pesquet_uni50"}

(***************************************************************************)
(* Numbers                                                                 *)
(***************************************************************************)
RECURSIVE GCD(_, _)
GCD(a, b) == IF b = 0 THEN a ELSE GCD(b, a % b)

Abs(a) == IF a < 0 THEN -a ELSE a

Rat(n, d) ==
  LET s == IF d < 0 THEN -1 ELSE 1
      g == GCD(Abs(n), Abs(d))
  IN [k |-> "rat", n |-> (s * n) \div g, d |-> (s * d) \div g]

Inf == [k |-> "inf"]

NInf == [k |-> "ninf"]

NaN == [k |-> "nan"]

None == [k |-> "None"]

\* a / b for two integers under NumPy's rules: a zero divisor gives inf, -inf or nan
NpDiv(a, b) ==
  IF b # 0 THEN Rat(a, b)
  ELSE IF a > 0 THEN Inf ELSE IF a < 0 THEN NInf ELSE NaN

RatLess(p, q) == p.n * q.d < q.n * p.d

RatEq(p, q) == p.n * q.d = q.n * p.d

RECURSIVE RatSum(_)
RatSum(s) ==
  IF s = <<>> THEN Rat(0, 1)
  ELSE LET h == Head(s)
           t == RatSum(Tail(s))
       IN Rat(h.n * t.d + t.n * h.d, h.d * t.d)

Repeat(v, m) == [j \in 1..m |-> v]

rho == Rat(99, 100)

tol_norm == Rat(21, 20)

(***************************************************************************)
(* External collaborators                                                  *)
(***************************************************************************)
\* np.random.seed(1807): the generator is a 16-state full-period LCG
RngSeed == 1807 % 16

RngNext(s) == (5 * s + 3) % 16

\* misc.divide_1Darray_equally(range(len(A)), n): subset s takes the blocks
\* s, s+n, s+2n, ... (sizes differ by at most one)
divide_1Darray_equally(m) ==
  [s \in 1..m |-> {i \in Blocks : (i - 1) % m = s - 1}]

RECURSIVE SetSum(_)
SetSum(S) == IF S = {} THEN 0 ELSE LET e == CHOOSE e \in S : TRUE
                                   IN e + SetSum(S \ {e})

\* Ai.norm(estimate=True) of the operator stacked from the blocks in S
NormEstimate(S) == SetSum(S)

\* normA = [tol_norm * Ai.norm(estimate=True) for Ai in A_subsets]
ComputeNorms(parts) ==
  [s \in 1..Len(parts) |->
     Rat(tol_norm.n * NormEstimate(parts[s]), tol_norm.d)]

\* the generator after the m norm estimates of one cache fill: each estimate
\* starts its power iteration from a random element
RECURSIVE RngAfter(_, _)
RngAfter(s, m) == IF m = 0 THEN s ELSE RngAfter(RngNext(s), m - 1)

(***************************************************************************)
(* State                                                                   *)
(***************************************************************************)
VARIABLES
  pc,          \* position of the script
  rng,         \* state of the process-wide np.random generator
  fdata,       \* data.npy
  ftarget,     \* target.npy
  fnorms,      \* norms_{k}subsets.npy for each key k
  fout,        \* {alg}_output.npy
  files0,      \* the cache files as they were when the script started
  writes,      \* number of np.save calls per cache file in this execution
  inmem,       \* where data and target in memory came from
  mu_g, mu_i,  \* strong convexity constants
  objseed,     \* which objective behaviour the external functionals show
  ai,          \* index of the run loop
  n, sub2ind, normA, kappa, kappa_max, prob_subset, prob, sigma, tau, theta,
  x, y,        \* iterate: updates applied to the zero element, per block for y
  cb,          \* the CallbackStore of the current run
  gp,          \* g.prox_options['p']
  kiter,       \* iteration counter of the running solver
  selected,    \* per variant, the subsets fun_select returned (history)
  obj_opt,
  out_v, out_resorted, K, aj

vars == <<pc, rng, fdata, ftarget, fnorms, fout, files0, writes, inmem, mu_g,
          mu_i, objseed, ai, n, sub2ind, normA, kappa, kappa_max, prob_subset, prob,
          sigma, tau, theta, x, y, cb, gp, kiter, selected, obj_opt, out_v,
          out_resorted, K, aj>>

(***************************************************************************)
(* Cache files                                                             *)
(***************************************************************************)
Absent == [st |-> "absent", val |-> <<>>]

Corrupt == [st |-> "corrupt", val |-> <<>>]

Stored(v) == [st |-> "ok", val |-> v]

\* the condition `not os.path.exists(file)` that guards every compute-and-save
MustComputeAlways(f) == TRUE

MustCompute(f) == f.st = "absent"

\* file name of the norm cache a variant with m subsets reads and fills
NormFileKeyPerSubsetCount(a, m) == m

NormFileKey(a, m) == IF IsPesquet(a) THEN 1 ELSE m

\* a norm cache keyed k as a correct earlier execution leaves it
GoodNorms(key) == Stored(ComputeNorms(divide_1Darray_equally(key)))

\* load the norm cache or fill it: the outcome of lines 143-150 and 255-262.
\* arr tells whether normA is the array np.load returned or the fresh list.
NormsStep(f, parts, r) ==
  IF MustCompute(f)
    THEN [abort |-> FALSE, wrote |-> TRUE, file |-> Stored(ComputeNorms(parts)),
          normA |-> [arr |-> FALSE, val |-> ComputeNorms(parts)],
          rng |-> RngAfter(r, Len(parts))]
  ELSE IF f.st = "ok"
    THEN [abort |-> FALSE, wrote |-> FALSE, file |-> f,
          normA |-> [arr |-> TRUE, val |-> f.val], rng |-> r]
  ELSE [abort |-> TRUE, wrote |-> FALSE, file |-> f,
        normA |-> [arr |-> FALSE, val |-> <<>>], rng |-> r]

(***************************************************************************)
(* Step size formulas                                                      *)
(***************************************************************************)
\* mu_f = np.min(mu_i)
mu_f == CHOOSE m \in {mu_i[i] : i \in Blocks} : \A i \in Blocks : m <= mu_i[i]

\* np.sqrt(1 + nA**2 / (mg * mu) / rho**2)
KappaOf(nA, mg, mu) ==
  IF mg * mu = 0
    THEN (IF nA.n = 0 THEN NaN ELSE Inf)
  ELSE LET q == Rat(nA.n * nA.n * rho.d * rho.d, nA.d * nA.d * mg * mu * rho.n * rho.n)
       IN [k |-> "kappa", n |-> q.n, d |-> q.d]

\* a <= b for two values KappaOf returns, none of them nan
KappaLeq(a, b) ==
  \/ b.k = "inf"
  \/ a.k = "kappa" /\ b.k = "kappa" /\ ~RatLess(b, a)

\* Python's max(list): the first element no later element exceeds
RECURSIVE KappaMax(_)
KappaMax(s) ==
  IF Len(s) = 1 THEN s[1]
  ELSE LET m == KappaMax(Tail(s))
       IN IF KappaLeq(m, s[1]) THEN s[1] ELSE m

\* 1 / ((c1 * kap + c0) * mu)
StepOf(kap, c1, c0, mu) ==
  CASE kap.k = "nan" -> NaN
    [] kap.k = "inf" -> (IF mu = 0 THEN NaN ELSE Rat(0, 1))
    [] OTHER -> (IF mu = 0 THEN Inf
                 ELSE [k |-> "step", n |-> kap.n, d |-> kap.d,
                       c1 |-> c1, c0 |-> c0, mu |-> mu])

\* 1 - 2 / (c1 * kap + c0)
ThetaOf(kap, c1, c0) ==
  CASE kap.k = "nan" -> NaN
    [] kap.k = "inf" -> Rat(1, 1)
    [] OTHER -> [k |-> "theta", n |-> kap.n, d |-> kap.d, c1 |-> c1, c0 |-> c0]

\* rho / normA[0]
PesquetStep(nA) == IF nA.n = 0 THEN Inf ELSE Rat(rho.n * nA.d, rho.d * nA.n)

\* the entry 1 / n of the probability lists
UniformProbOverBlocks(m) == Rat(1, NumBlocks)

UniformProb(m) == Rat(1, m)

\* prob, sigma, tau, theta = [None] * 4
ClearedKeepTheta(th) == th

Cleared(th) == None

(***************************************************************************)
(* Measurements                                                            *)
(***************************************************************************)
\* obj_fun(x) - obj_fun(x_opt) for an iterate that took xv updates in variant
\* number a: five behaviours of the objective gap (decreasing, reaching the
\* target value, undershooting it, starting at it, starting below it)
obj_fun(seed, a, xv) ==
  LET shape == (seed + a) % 5
  IN CASE shape = 0 -> (IF xv = 0 THEN 3 ELSE 1)
       [] shape = 1 -> (IF xv = 0 THEN 1 ELSE 0)
       [] shape = 2 -> (IF xv = 0 THEN 1 ELSE -1)
       [] shape = 3 -> (IF xv = 0 THEN 0 ELSE IF xv % 2 = 0 THEN 1 ELSE -1)
       [] OTHER -> (IF xv = 0 THEN -1 ELSE -2)

\* dist_x(x): half the squared distance of x to x_opt
dist_x(xv) == IF xv >= 2 THEN 0 ELSE 2 - xv

\* dist_y(y): half the squared distance of y to y_opt
dist_y(yv) == Cardinality({i \in Blocks : yv[i] = 0})

ZeroY == [i \in Blocks |-> 0]

\* CallbackStore.__init__
NewCallbackStore(a) ==
  [alg |-> a, iter_save |-> iter_save[a], iter |-> 0, out |-> <<>>]

\* `self.iter in self.iter_save`
StoreDueAlways(c) == TRUE

StoreDue(c) == c.iter \in c.iter_save

\* CallbackStore.__call__
CallbackCall(c, seed, a, xv, yv) ==
  [c EXCEPT
     !.out = IF StoreDue(c)
               THEN Append(@, [obj |-> obj_fun(seed, a, xv),
                               dist |-> dist_x(xv) + dist_y(yv),
                               dist_x |-> dist_x(xv), dist_y |-> dist_y(yv)])
             ELSE @,
     !.iter = @ + 1]

\* int(np.random.choice(n, 1, p=p)) for the generator state s: the first index
\* whose cumulative probability exceeds the uniform draw s/16
Choice(s, p) ==
  CHOOSE j \in 1..Len(p) :
    /\ RatLess(Rat(s, 16), RatSum(SubSeq(p, 1, j)))
    /\ \A i \in 1..(j - 1) : ~RatLess(Rat(s, 16), RatSum(SubSeq(p, 1, i)))

\* np.random.choice rejects a p that does not sum to 1
ChoiceValid(p) == Len(p) > 0 /\ RatEq(RatSum(p), Rat(1, 1))

(***************************************************************************)
(* Initial states                                                          *)
(***************************************************************************)
MuVals == {0, 1, 2}

FileStates == {"absent", "ok", "corrupt"}

DefaultMu == [i \in Blocks |-> 1]

\* the cache files found at start are each absent, as a correct earlier
\* execution wrote them, or unreadable.  The inputs vary along three axes: the
\* cache files, the strong convexity constants, the objective behaviour.
\* Nothing seeds the generator before line 247: it starts in any state (two
\* of them are taken).
Init ==
  /\ pc = "data"
  /\ rng \in {0, 1}
  /\ \E sd \in FileStates, st \in FileStates, sn \in [NormKeys -> FileStates],
        mg \in {0, 1}, mi \in [Blocks -> MuVals], os \in 0..4 :
       /\ \/ mg = 1 /\ mi = DefaultMu /\ os = 0
          \/ os = 0 /\ sd = "ok" /\ st \in {"absent", "ok"}
                    /\ (\A k1, k2 \in NormKeys : sn[k1] = sn[k2])
                    /\ sn[1] \in {"absent", "ok"}
          \/ mg = 1 /\ mi = DefaultMu /\ sd = "ok" /\ st = "ok"
                    /\ \A k1 \in NormKeys : sn[k1] = "ok"
       /\ fdata = [st |-> sd, val |-> <<>>]
       /\ ftarget = [st |-> st, val |-> <<>>, obj_opt |-> 0]
       /\ fnorms = [k1 \in NormKeys |->
                      CASE sn[k1] = "ok" -> GoodNorms(k1)
                        [] sn[k1] = "absent" -> Absent
                        [] OTHER -> Corrupt]
       /\ mu_g = mg
       /\ mu_i = mi
       /\ objseed = os
  /\ files0 = [data |-> fdata, target |-> ftarget, norms |-> fnorms]
  /\ fout = [a \in AlgSet |-> [st |-> "absent"]]
  /\ writes = [data |-> 0, target |-> 0, norms |-> [k1 \in NormKeys |-> 0]]
  /\ inmem = [data |-> "unset", target |-> "unset"]
  /\ ai = 1
  /\ n = 0
  /\ sub2ind = <<>>
  /\ normA = [arr |-> FALSE, val |-> <<>>]
  /\ kappa = <<>>
  /\ kappa_max = None
  /\ prob_subset = <<>>
  /\ prob = None
  /\ sigma = None
  /\ tau = None
  /\ theta = None
  /\ x = 0
  /\ y = ZeroY
  /\ cb = NewCallbackStore("pdhg")
  /\ gp = "unset"
  /\ kiter = 0
  /\ selected = [a \in AlgSet |-> <<>>]
  /\ obj_opt = 0
  /\ out_v = [a \in AlgSet |-> <<>>]
  /\ out_resorted = [a \in AlgSet |-> <<>>]
  /\ K = 0
  /\ aj = 1

(***************************************************************************)
(* Data and target stages                                                  *)
(***************************************************************************)
Alg == RunOrder[ai]

\* lines 74-117
LoadData ==
  /\ pc = "data"
  /\ IF MustCompute(fdata)
       THEN /\ fdata' = Stored(<<>>)
            /\ writes' = [writes EXCEPT !.data = @ + 1]
            /\ inmem' = [inmem EXCEPT !.data = "computed"]
            /\ pc' = "target"
     ELSE IF fdata.st = "ok"
       THEN /\ inmem' = [inmem EXCEPT !.data = "loaded"]
            /\ pc' = "target"
            /\ UNCHANGED <<fdata, writes>>
     ELSE /\ pc' = "aborted"
          /\ UNCHANGED <<fdata, writes, inmem>>
  /\ UNCHANGED <<rng, ftarget, fnorms, fout, files0, mu_g, mu_i, objseed, ai,
                 n, sub2ind, normA, kappa, kappa_max, prob_subset, prob, sigma,
                 tau, theta, x, y, cb, gp, kiter, selected, obj_opt, out_v,
                 out_resorted, K, aj>>

\* lines 140-165 and 186-188: load the target, or prepare its computation
Target ==
  /\ pc = "target"
  /\ IF MustCompute(ftarget)
       THEN /\ LET r == NormsStep(fnorms[1], <<Blocks>>, rng)
                   kap == KappaOf(r.normA.val[1], mu_g, mu_f)
               IN IF r.abort
                    THEN /\ pc' = "aborted"
                         /\ UNCHANGED <<rng, fnorms, writes, normA, kappa,
                                        sigma, tau, theta, gp>>
                  ELSE /\ fnorms' = [fnorms EXCEPT ![1] = r.file]
                       /\ writes' = [writes EXCEPT
                                       !.norms[1] = IF r.wrote THEN @ + 1 ELSE @]
                       /\ rng' = r.rng
                       /\ normA' = r.normA
                       /\ kappa' = kap
                       /\ sigma' = StepOf(kap, 1, -1, mu_f)
                       /\ tau' = StepOf(kap, 1, -1, mu_g)
                       /\ theta' = ThetaOf(kap, 1, 1)
                       /\ gp' = "None"
                       /\ pc' = "target_solve"
            /\ UNCHANGED <<inmem, obj_opt>>
     ELSE IF ftarget.st = "ok"
       THEN /\ inmem' = [inmem EXCEPT !.target = "loaded"]
            /\ obj_opt' = ftarget.obj_opt
            /\ pc' = "clear"
            /\ UNCHANGED <<rng, fnorms, writes, normA, kappa, sigma, tau, theta, gp>>
     ELSE /\ pc' = "aborted"
          /\ UNCHANGED <<rng, fnorms, writes, normA, kappa, sigma, tau, theta,
                         gp, inmem, obj_opt>>
  /\ UNCHANGED <<fdata, ftarget, fout, files0, mu_g, mu_i, objseed, ai, n,
                 sub2ind, kappa_max, prob_subset, prob, x, y, cb, kiter,
                 selected, out_v, out_resorted, K, aj>>

\* lines 166-184: odl.solvers.pdhg runs niter_target iterations with the step
\* sizes just computed, then the saddle point is saved
TargetSolve ==
  /\ pc = "target_solve"
  /\ gp' = "warm"
  /\ obj_opt' = 0
  /\ ftarget' = [st |-> "ok", val |-> <<>>, obj_opt |-> 0]
  /\ writes' = [writes EXCEPT !.target = @ + 1]
  /\ inmem' = [inmem EXCEPT !.target = "computed"]
  /\ pc' = "clear"
  /\ UNCHANGED <<rng, fdata, fnorms, fout, files0, mu_g, mu_i, objseed, ai, n,
                 sub2ind, normA, kappa, kappa_max, prob_subset, prob, sigma,
                 tau, theta, x, y, cb, kiter, selected, out_v, out_resorted,
                 K, aj>>

(***************************************************************************)
(* Run loop                                                                *)
(***************************************************************************)
\* lines 237-247: clear variables, divide the blocks, seed the generator
RunClear ==
  /\ pc = "clear"
  /\ prob' = Cleared(prob)
  /\ sigma' = Cleared(sigma)
  /\ tau' = Cleared(tau)
  /\ theta' = Cleared(theta)
  /\ n' = nsub[Alg]
  /\ sub2ind' = divide_1Darray_equally(nsub[Alg])
  /\ rng' = RngSeed
  /\ pc' = "norms"
  /\ UNCHANGED <<fdata, ftarget, fnorms, fout, files0, writes, inmem, mu_g,
                 mu_i, objseed, ai, normA, kappa, kappa_max, prob_subset, x, y,
                 cb, gp, kiter, selected, obj_opt, out_v, out_resorted, K, aj>>

\* lines 249-262: choose the norm cache file, load it or fill it
RunNorms ==
  /\ pc = "norms"
  /\ LET key == NormFileKey(Alg, n)
         r == NormsStep(fnorms[key], sub2ind, rng)
     IN IF r.abort
          THEN /\ pc' = "aborted"
               /\ UNCHANGED <<rng, fnorms, writes, normA>>
        ELSE /\ fnorms' = [fnorms EXCEPT ![key] = r.file]
             /\ writes' = [writes EXCEPT
                             !.norms[key] = IF r.wrote THEN @ + 1 ELSE @]
             /\ rng' = r.rng
             /\ normA' = r.normA
             /\ pc' = "params"
  /\ UNCHANGED <<fdata, ftarget, fout, files0, inmem, mu_g, mu_i, objseed, ai,
                 n, sub2ind, kappa, kappa_max, prob_subset, prob, sigma, tau,
                 theta, x, y, cb, gp, kiter, selected, obj_opt, out_v,
                 out_resorted, K, aj>>

\* zip(normA, mu_i): entry j of normA with entry j of mu_i
ZipLen == IF Len(normA.val) < NumBlocks THEN Len(normA.val) ELSE NumBlocks

\* lines 265-271
ParamsPdhg ==
  LET kap == KappaOf(normA.val[1], mu_g, mu_f)
  IN /\ kappa' = kap
     /\ prob_subset' = <<Rat(1, 1)>>
     /\ prob' = Repeat(Rat(1, 1), NumBlocks)
     /\ sigma' = Repeat(StepOf(kap, 1, -1, mu_f), NumBlocks)
     /\ tau' = StepOf(kap, 1, -1, mu_g)
     /\ theta' = ThetaOf(kap, 1, 1)
     /\ pc' = "init"
     /\ UNCHANGED kappa_max

\* lines 273-281
ParamsSpdhg ==
  LET kaps == [j \in 1..ZipLen |-> KappaOf(normA.val[j], mu_g, mu_i[j])]
      km == KappaMax(kaps)
  IN /\ kappa' = kaps
     /\ kappa_max' = km
     /\ prob_subset' = Repeat(UniformProb(n), n)
     /\ prob' = Repeat(UniformProb(n), NumBlocks)
     /\ sigma' = [i \in Blocks |-> StepOf(km, 1, -1, mu_i[i])]
     /\ tau' = StepOf(km, n, n - 2, mu_g)
     /\ theta' = ThetaOf(km, n, n)
     /\ pc' = "init"

\* lines 283-287
ParamsPesquet ==
  /\ prob_subset' = Repeat(UniformProb(n), n)
  /\ prob' = Repeat(UniformProb(n), NumBlocks)
  /\ sigma' = Repeat(PesquetStep(normA.val[1]), NumBlocks)
  /\ tau' = PesquetStep(normA.val[1])
  /\ pc' = "init"
  /\ UNCHANGED <<kappa, kappa_max, theta>>

\* A division of two plain Python floats by zero raises ZeroDivisionError;
\* with a NumPy scalar on either side it yields inf.  mu_f is a NumPy scalar
\* (np.min) and a loaded normA is an array, so only line 274 with a freshly
\* computed normA can raise, and does when the libraries return plain floats.
MayRaise ==
  /\ IsSpdhg(Alg)
  /\ ~normA.arr
  /\ \E j \in 1..ZipLen : mu_g * mu_i[j] = 0

\* lines 264-290: choose parameters for algorithm
RunParams ==
  /\ pc = "params"
  /\ \/ /\ Alg = "pdhg"
        /\ ParamsPdhg
     \/ /\ IsSpdhg(Alg)
        /\ ParamsSpdhg
     \/ /\ IsPesquet(Alg)
        /\ ParamsPesquet
     \/ /\ MayRaise
        /\ pc' = "aborted"
        /\ UNCHANGED <<kappa, kappa_max, prob_subset, prob, sigma, tau, theta>>
  /\ UNCHANGED <<rng, fdata, ftarget, fnorms, fout, files0, writes, inmem, mu_g,
                 mu_i, objseed, ai, n, sub2ind, normA, x, y, cb, gp, kiter,
                 selected, obj_opt, out_v, out_resorted, K, aj>>

\* lines 296-306: zero iterate, new callback, its first call, warm start reset
RunInit ==
  /\ pc = "init"
  /\ x' = 0
  /\ y' = ZeroY
  /\ cb' = CallbackCall(NewCallbackStore(Alg), objseed, ai, 0, ZeroY)
  /\ gp' = "None"
  /\ kiter' = 0
  /\ selected' = [selected EXCEPT ![Alg] = <<>>]
  /\ pc' = "solve"
  /\ UNCHANGED <<rng, fdata, ftarget, fnorms, fout, files0, writes, inmem, mu_g,
                 mu_i, objseed, ai, n, sub2ind, normA, kappa, kappa_max,
                 prob_subset, prob, sigma, tau, theta, obj_opt, out_v,
                 out_resorted, K, aj>>

\* one iteration of spdhg / spdhg_pesquet: fun_select (lines 293-294) draws the
\* subset, its dual blocks and the primal variable are updated (the prox of g
\* leaves its warm start in g.prox_options['p']), the callback is called
SolverIter ==
  /\ pc = "solve"
  /\ kiter < niter[Alg]
  /\ IF ChoiceValid(prob_subset)
       THEN LET r == RngNext(rng)
                sel == Choice(r, prob_subset)
                y1 == [i \in Blocks |-> IF i \in sub2ind[sel] THEN y[i] + 1 ELSE y[i]]
            IN /\ rng' = r
               /\ selected' = [selected EXCEPT ![Alg] = Append(@, sel)]
               /\ y' = y1
               /\ x' = x + 1
               /\ gp' = "warm"
               /\ cb' = CallbackCall(cb, objseed, ai, x + 1, y1)
               /\ kiter' = kiter + 1
               /\ pc' = "solve"
     ELSE /\ pc' = "aborted"
          /\ UNCHANGED <<rng, selected, y, x, gp, cb, kiter>>
  /\ UNCHANGED <<fdata, ftarget, fnorms, fout, files0, writes, inmem, mu_g,
                 mu_i, objseed, ai, n, sub2ind, normA, kappa, kappa_max,
                 prob_subset, prob, sigma, tau, theta, obj_opt, out_v,
                 out_resorted, K, aj>>

\* lines 319-321: save the output bundle; the loop moves to the next variant
RunSave ==
  /\ pc = "solve"
  /\ kiter = niter[Alg]
  /\ fout' = [fout EXCEPT ![Alg] =
                [st |-> "ok", iter_save |-> iter_save[Alg], niter |-> niter[Alg],
                 x |-> x, out |-> cb.out, nsub |-> nsub[Alg], theta |-> theta]]
  /\ IF ai < Len(RunOrder)
       THEN ai' = ai + 1 /\ pc' = "clear"
     ELSE ai' = ai /\ pc' = "analysis"
  /\ UNCHANGED <<rng, fdata, ftarget, fnorms, files0, writes, inmem, mu_g, mu_i,
                 objseed, n, sub2ind, normA, kappa, kappa_max, prob_subset,
                 prob, sigma, tau, theta, x, y, cb, gp, kiter, selected,
                 obj_opt, out_v, out_resorted, K, aj>>

(***************************************************************************)
(* Analysis stage                                                          *)
(***************************************************************************)
Meas == {"obj", "dist", "dist_x", "dist_y"}

\* `value <= 0` on an entry of a float array (False for nan)
LessThanZero(v) == v.k = "ninf" \/ (v.k = "rat" /\ v.n < 0)

NotPositive(v) == v.k = "ninf" \/ (v.k = "rat" /\ v.n <= 0)

\* lines 324-332: load the five output bundles
AnalysisLoad ==
  /\ pc = "analysis"
  /\ IF \A a \in AlgSet : fout[a].st = "ok"
       THEN out_v' = fout /\ pc' = "resort" /\ aj' = 1
     ELSE pc' = "aborted" /\ UNCHANGED <<out_v, aj>>
  /\ UNCHANGED <<rng, fdata, ftarget, fnorms, fout, files0, writes, inmem, mu_g,
                 mu_i, objseed, ai, n, sub2ind, normA, kappa, kappa_max,
                 prob_subset, prob, sigma, tau, theta, x, y, cb, gp, kiter,
                 selected, obj_opt, out_resorted, K>>

\* lines 335-353 for one variant: the measures as arrays of length K, and the
\* relative objective.  The quotient's operands are plain floats or NumPy
\* scalars depending on the functional library: a zero denominator raises
\* ZeroDivisionError in the first case and gives inf or nan in the second.
Resort ==
  /\ pc = "resort"
  /\ LET a == Algs[aj]
         len == Cardinality(out_v[a].iter_save)
         out == out_v[a].out
     IN /\ K' = len
        /\ IF Len(out) < len \/ Len(out) = 0
             THEN pc' = "aborted" /\ UNCHANGED <<out_resorted, aj>>
           ELSE \/ /\ out_resorted' = [out_resorted EXCEPT ![a] =
                        [obj |-> [j \in 1..len |-> Rat(out[j].obj, 1)],
                         dist |-> [j \in 1..len |-> Rat(out[j].dist, 1)],
                         dist_x |-> [j \in 1..len |-> Rat(out[j].dist_x, 1)],
                         dist_y |-> [j \in 1..len |-> Rat(out[j].dist_y, 1)],
                         obj_rel |-> [j \in 1..len |->
                                        NpDiv(out[j].obj - obj_opt,
                                              out[1].obj - obj_opt)]]]
                   /\ IF aj < Len(Algs)
                        THEN aj' = aj + 1 /\ pc' = "resort"
                      ELSE aj' = 1 /\ pc' = "clamp"
                \/ /\ out[1].obj - obj_opt = 0
                   /\ pc' = "aborted"
                   /\ UNCHANGED <<out_resorted, aj>>
  /\ UNCHANGED <<rng, fdata, ftarget, fnorms, fout, files0, writes, inmem, mu_g,
                 mu_i, objseed, ai, n, sub2ind, normA, kappa, kappa_max,
                 prob_subset, prob, sigma, tau, theta, x, y, cb, gp, kiter,
                 selected, obj_opt, out_v>>

\* lines 357-359 on one array, with the index bound kk
ClampArray(arr, kk) ==
  [j \in 1..Len(arr) |-> IF j <= kk /\ NotPositive(arr[j]) THEN NaN ELSE arr[j]]

\* lines 355-359 for one variant; K is what the resort loop left
Clamp ==
  /\ pc = "clamp"
  /\ LET a == Algs[aj]
         r == out_resorted[a]
     IN IF K > Len(r.obj)
          THEN pc' = "aborted" /\ UNCHANGED <<out_resorted, aj>>
        ELSE /\ out_resorted' = [out_resorted EXCEPT ![a] =
                  [obj |-> ClampArray(r.obj, K),
                   dist |-> ClampArray(r.dist, K),
                   dist_x |-> ClampArray(r.dist_x, K),
                   dist_y |-> ClampArray(r.dist_y, K),
                   obj_rel |-> ClampArray(r.obj_rel, K)]]
             /\ IF aj < Len(Algs)
                  THEN aj' = aj + 1 /\ pc' = "clamp"
                ELSE aj' = aj /\ pc' = "done"
  /\ UNCHANGED <<rng, fdata, ftarget, fnorms, fout, files0, writes, inmem, mu_g,
                 mu_i, objseed, ai, n, sub2ind, normA, kappa, kappa_max,
                 prob_subset, prob, sigma, tau, theta, x, y, cb, gp, kiter,
                 selected, obj_opt, out_v, K>>

Next ==
  \/ LoadData
  \/ Target
  \/ TargetSolve
  \/ RunClear
  \/ RunNorms
  \/ RunParams
  \/ RunInit
  \/ SolverIter
  \/ RunSave
  \/ AnalysisLoad
  \/ Resort
  \/ Clamp

Spec == Init /\ [][Next]_vars

(***************************************************************************)
(* Properties                                                              *)
(***************************************************************************)
ParamsChosen == pc \in {"init", "solve"}

ZeroModulus == mu_g = 0 \/ \E i \in Blocks : mu_i[i] = 0

RECURSIVE SelectFrom(_, _, _)
SelectFrom(s, p, m) ==
  IF m = 0 THEN <<>>
  ELSE <<Choice(RngNext(s), p)>> \o SelectFrom(RngNext(s), p, m - 1)

\* the subsets fun_select returns in an execution that finds every norm cache
\* present: nothing draws between np.random.seed(1807) and the first selection
WarmSelection(a, m) ==
  SelectFrom(RngSeed, Repeat(Rat(1, nsub[a]), nsub[a]), m)

NormsCachedAtStart == \A key \in NormKeys : files0.norms[key].st = "ok"

\* C1: for every variant the sequence of subsets fun_select returns is the
\* same in any two executions, whatever norm caches they start with; stated
\* against the execution that starts with all norm caches present: every
\* execution's selections are that execution's selections.  (Checked on the
\* executions with positive strong convexity constants, where no other
\* property of the harness is in question.)
C1_SameSelectionsInEveryExecution ==
  ~ZeroModulus =>
    \A a \in AlgSet : selected[a] = WarmSelection(a, Len(selected[a]))

\* the reference of C1 is itself an execution of the harness
C1_WarmExecutionsAgree ==
  NormsCachedAtStart =>
    \A a \in AlgSet : selected[a] = WarmSelection(a, Len(selected[a]))

AcceleratedSolverCalled ==
  \/ pc = "target_solve"
  \/ pc = "solve" /\ ~IsPesquet(Alg)

\* C2: with mu_g = 0 or some mu_i = 0 the harness aborts while computing the
\* accelerated step sizes; it never calls the solver with them.
C2_ZeroModulusNeverReachesSolver == ZeroModulus => ~AcceleratedSolverCalled

\* C3: a norm cache file keyed k that exists holds exactly k estimates, the
\* norms of the k subsets of the k-subset partition.
C3_NormCacheHoldsItsPartition ==
  \A key \in NormKeys :
    fnorms[key].st = "ok" =>
      /\ Len(fnorms[key].val) = key
      /\ fnorms[key].val = ComputeNorms(divide_1Darray_equally(key))

C3_Witness ==
  /\ pc = "params"
  /\ IsPesquet(Alg)
  /\ files0.norms[1].st = "absent"
  /\ files0.target.st = "ok"
  /\ fnorms[1].st = "ok"

PresentAtStart(f) == f.st # "absent"

\* C4: a cache file present at start is never written and is what the harness
\* uses; every cache file is saved at most once; an unreadable one aborts the
\* execution at its load point.
C4_CachedArtifactsUsedAsIs ==
  /\ writes.data <= 1 /\ writes.target <= 1
  /\ \A key \in NormKeys : writes.norms[key] <= 1
  /\ PresentAtStart(files0.data) =>
       /\ writes.data = 0 /\ fdata = files0.data /\ inmem.data # "computed"
       /\ files0.data.st = "corrupt" => pc \in {"data", "aborted"}
       /\ (files0.data.st = "ok" /\ pc # "data") => inmem.data = "loaded"
  /\ PresentAtStart(files0.target) =>
       /\ writes.target = 0 /\ ftarget = files0.target /\ inmem.target # "computed"
       /\ files0.target.st = "corrupt" => pc \in {"data", "target", "aborted"}
       /\ (files0.target.st = "ok" /\ pc \notin {"data", "target", "aborted"})
            => inmem.target = "loaded" /\ obj_opt = files0.target.obj_opt
  /\ \A key \in NormKeys :
       PresentAtStart(files0.norms[key]) =>
         writes.norms[key] = 0 /\ fnorms[key] = files0.norms[key]
  /\ pc \in {"params", "init", "solve"} =>
       /\ fnorms[NormFileKey(Alg, n)].st = "ok"
       /\ normA.val = fnorms[NormFileKey(Alg, n)].val
       /\ PresentAtStart(files0.norms[NormFileKey(Alg, n)]) => normA.arr
  /\ pc = "target_solve" =>
       /\ fnorms[1].st = "ok"
       /\ normA.val = fnorms[1].val
       /\ PresentAtStart(files0.norms[1]) => normA.arr

C4_Witness ==
  /\ pc = "solve"
  /\ Alg = "spdhg_uni10"
  /\ files0.data.st = "ok"
  /\ files0.target.st = "ok"
  /\ files0.norms[2].st = "ok"
  /\ files0.norms[1].st = "absent"
  /\ writes.norms[1] = 1
  /\ normA.arr

\* C5 as claimed: the probabilities built for a run sum to 1, both prob_subset
\* and the list prob handed to spdhg.
C5_BothListsSumToOne ==
  (ParamsChosen /\ ~ZeroModulus) =>
    /\ RatEq(RatSum(prob_subset), Rat(1, 1))
    /\ RatEq(RatSum(prob), Rat(1, 1))

\* C5 amended: prob_subset has n entries that sum to 1; prob has one entry per
\* data block, each the probability 1/n of the subset the block is in, so it
\* sums to (number of blocks) / n.
C5_SubsetProbabilitiesSumToOne ==
  ParamsChosen =>
    /\ Len(prob_subset) = n
    /\ RatEq(RatSum(prob_subset), Rat(1, 1))
    /\ Len(prob) = NumBlocks
    /\ \A i \in Blocks : RatEq(prob[i], Rat(1, n))
    /\ RatEq(RatSum(prob), Rat(NumBlocks, n))

C5_Witness ==
  /\ pc = "solve"
  /\ IsSpdhg(Alg)
  /\ kiter > 0
  /\ n < NumBlocks

\* C6: in the uniform stochastic variant kappa_max bounds the kappa of every
\* data block: for every subset s and every block i of s,
\* kappa_max >= sqrt(1 + normA[s]^2 / (mu_g * mu_i[i]) / rho^2).  (Checked
\* where every kappa is finite: all strong convexity constants positive.)
C6_KappaMaxBoundsEveryBlock ==
  (ParamsChosen /\ IsSpdhg(Alg) /\ ~ZeroModulus) =>
    \A s \in 1..n : \A i \in sub2ind[s] :
      KappaLeq(KappaOf(normA.val[s], mu_g, mu_i[i]), kappa_max)

Positive(v) == v.k = "inf" \/ (v.k = "rat" /\ v.n > 0)

\* C7: after the analysis stage every entry of every variant's obj_rel is
\* strictly positive or nan, over all NEpoch + 1 recorded indices.
C7_RelativeObjectivePositiveOrNan ==
  pc = "done" =>
    \A a \in AlgSet :
      /\ Len(out_resorted[a].obj_rel) = Len(out_v[a].out)
      /\ \A j \in 1..Len(out_resorted[a].obj_rel) :
           LET v == out_resorted[a].obj_rel[j]
           IN v.k = "nan" \/ Positive(v)

C7_Witness ==
  /\ pc = "done"
  /\ \E j \in 2..(NEpoch + 1) :
       /\ out_v["pesquet_uni50"].out[1].obj - obj_opt > 0
       /\ out_v["pesquet_uni50"].out[j].obj - obj_opt <= 0
       /\ out_resorted["pesquet_uni50"].obj_rel[j] = NaN

\* C8: for a pesquet variant tau and every sigma_i are rho divided by the norm
\* estimate of the whole operator, the single entry of the cache keyed 1, and
\* not rho divided by a norm of the variant's own partition.
C8_PesquetUsesFullOperatorNorm ==
  (ParamsChosen /\ IsPesquet(Alg)) =>
    LET full == tol_norm.n * NormEstimate(Blocks)
    IN /\ fnorms[1].st = "ok"
       /\ Len(fnorms[1].val) = 1
       /\ RatEq(fnorms[1].val[1], Rat(full, tol_norm.d))
       /\ tau.k = "rat"
       /\ tau.n * rho.d * full = tau.d * rho.n * tol_norm.d
       /\ \A i \in Blocks : sigma[i] = tau
       /\ \A s \in 1..n :
            tau.n * rho.d * tol_norm.n * NormEstimate(sub2ind[s])
              # tau.d * rho.n * tol_norm.d

C8_Witness ==
  /\ pc = "solve"
  /\ Alg = "pesquet_uni50"
  /\ files0.norms[1].st = "absent"
  /\ files0.target.st = "ok"
  /\ kiter = niter[Alg]

SavedBefore(a, c) == Cardinality({i \in iter_save[a] : i < c})

CallbackCountsInRun ==
  /\ pc = "solve" =>
       /\ cb.iter = kiter + 1
       /\ kiter <= niter[Alg]
       /\ Len(cb.out) = SavedBefore(Alg, cb.iter)
  /\ (pc = "solve" /\ kiter = niter[Alg]) =>
       /\ cb.iter = niter[Alg] + 1
       /\ Len(cb.out) = NEpoch + 1
  /\ \A a \in AlgSet :
       fout[a].st = "ok" =>
         /\ Len(fout[a].out) = NEpoch + 1
         /\ Len(fout[a].out) = Cardinality(fout[a].iter_save)

CallbackCallStep ==
  (pc = "solve" /\ pc' = "solve" /\ kiter' # kiter) =>
    /\ cb'.iter = cb.iter + 1
    /\ \/ cb'.out = cb.out
       \/ /\ cb.iter \in iter_save[Alg]
          /\ Len(cb'.out) = Len(cb.out) + 1
          /\ SubSeq(cb'.out, 1, Len(cb.out)) = cb.out

\* C9: during a run the callback has been called once before the solver and
\* once per iteration, its counter grows by one per call, its trace grows only
\* by appends and holds one snapshot per call index in iter_save; every saved
\* bundle holds NEpoch + 1 snapshots.
C9_CallbackCounts == []CallbackCountsInRun /\ [][CallbackCallStep]_vars

C9_Witness ==
  /\ pc = "analysis"
  /\ \A a \in AlgSet : fout[a].st = "ok" /\ Len(fout[a].out) = NEpoch + 1

\* C10: each run starts from cleared state: prob, sigma, tau and theta are
\* None after the clearing, the solver starts from the zero iterate with a
\* callback that was called once and with the warm start of g cleared, and a
\* pesquet bundle stores None as its extrapolation parameter.
C10_RunsStartFresh ==
  /\ pc = "norms" => prob = None /\ sigma = None /\ tau = None /\ theta = None
  /\ pc = "params" => prob = None /\ sigma = None /\ tau = None /\ theta = None
  /\ (pc = "solve" /\ kiter = 0) =>
       /\ x = 0 /\ y = ZeroY
       /\ cb.alg = Alg /\ cb.iter = 1 /\ Len(cb.out) = 1
       /\ gp = "None"
       /\ selected[Alg] = <<>>
  /\ \A a \in AlgSet : (fout[a].st = "ok" /\ IsPesquet(a)) => fout[a].theta = None

C10_Witness ==
  /\ fout["pesquet_uni10"].st = "ok"
  /\ fout["spdhg_uni50"].st = "ok"
  /\ fout["spdhg_uni50"].theta # None
  /\ fout["pesquet_uni10"].theta = None

====
